---- MODULE Spec2Model ----
(***************************************************************************)
(* The bounded resource pool of backend/app/crawler/browserpool:           *)
(* BrowserPool (browserpool.py) and CrawlerPool (crawl4aipool.py).         *)
(*                                                                         *)
(* Both classes are the same pool around a different handle class, so one  *)
(* state machine models both; the variable kind says which class the pool  *)
(* object is.  Tasks are asyncio tasks on one event loop: an action is the *)
(* code a task runs between two suspension points.                         *)
(*                                                                         *)
(* The search engines (baidusearch.py, quarksearch.py, sougousearch.py)    *)
(* are the pool's callers: response() leases a browser and run() opens a   *)
(* context and a page on it for each question.                             *)
(***************************************************************************)
EXTENDS Integers, Sequences, FiniteSets, TLC

\* ------------------------------------------------------------------ bounds
\* Spec: NumTasks callers and PoolCleanups calls of cleanup();
\* SpecCleanup: CleanupTasks callers and MaxCleanups calls of cleanup();
\* SpecLive, SpecHistory: NumTasks callers, no cleanup().
\* MaxOrphans: launches that fail after the driver started; MaxRaised:
\* __aexit__ runs that raise.
NumTasks == 3
CleanupTasks == 2
MaxPoolSize == 2
PoolCleanups == 1
MaxCleanups == 2
MaxOrphans == 1
MaxRaised == 1

\* SpecEngine: NumSearches tasks that each call an engine's response()
\* once, with a list of at most MaxQuestions questions.
NumSearches == 2
MaxQuestions == 2

Tasks == 1..NumTasks
Kinds == {"browser", "crawler"}

VARIABLES
    kind,               \* which class the pool is: BrowserPool or CrawlerPool
    pool_size,          \* self.pool_size
    lock,               \* self.lock, the asyncio.Semaphore: value, waiters, futures
    pool,               \* self.pool, the asyncio.Queue of idle handles (FIFO)
    browser_instances,  \* self.browser_instances / self.instances: every handle created
    pc,                 \* where each task is suspended
    held,               \* the handle each task was yielded (0: none)
    cleanups,           \* the cleanup() calls made so far, each with its gather
    orphans,            \* playwright drivers started by a creation that then failed
    last,               \* the step taken last (what the callers observed)
    history,            \* what a test harness counts over a run (SpecHistory)
    response,           \* the frame of each task's call of an engine's response()
    contexts            \* the browser contexts open on each handle's browser

vars == <<kind, pool_size, lock, pool, browser_instances, pc, held, cleanups,
          orphans, last, history, response, contexts>>

\* The state of the search engines (SpecEngine); the pool never reads it.
engineVars == <<response, contexts>>

\* ---------------------------------------------------------------- handles
\* A handle is identified by its index in browser_instances.
\* browser: the attribute self.browser (self.crawler) is set;
\* playwright: the attribute self.playwright is set;
\* closeCalls: calls of browser.close() (crawler.close()) made on it;
\* stopCalls: calls of playwright.stop() made on it.
NewBrowserPlaywright ==
    [browser |-> TRUE, playwright |-> TRUE, closeCalls |-> 0, stopCalls |-> 0]

ClosedCrawlerInstance ==
    [browser |-> FALSE, playwright |-> FALSE, closeCalls |-> 1, stopCalls |-> 0]

NewCrawlerInstance ==
    [browser |-> TRUE, playwright |-> FALSE, closeCalls |-> 0, stopCalls |-> 0]

\* The handle's underlying resource is open and usable: what __aenter__ set
\* is set, and nothing closed it.
HandleReady(b) ==
    /\ b.browser
    /\ b.closeCalls = 0
    /\ kind = "browser" => (b.playwright /\ b.stopCalls = 0)

\* The handle has been closed by __aexit__: BrowserPlaywright has neither
\* browser nor playwright any more, the CrawlerInstance's crawler was closed.
HandleClosed(b) ==
    IF kind = "browser" THEN ~b.browser /\ ~b.playwright
    ELSE b.closeCalls > 0

Event(op, t, h) == [op |-> op, task |-> t, handle |-> h]

\* -------------------------------------------------- asyncio.Semaphore
\* self.lock = Semaphore(pool_size); entered by `async with self.lock`.
\* The semaphore is the one of CPython 3.11 (asyncio/locks.py): release()
\* hands the permit to the first pending waiter, whose future stays in
\* _waiters until the waiter resumes, and locked() holds while it is there.
\* fut[t] is the future task t waits on in acquire():
\* "none", "pending", "result" (set by _wake_up_next), "cancelled".
NewSemaphoreOneMore(n) ==
    [value |-> n + 1, waiters |-> <<>>, fut |-> [t \in Tasks |-> "none"]]

NewSemaphoreOne(n) ==
    [value |-> 1, waiters |-> <<>>, fut |-> [t \in Tasks |-> "none"]]

NewSemaphore(n) ==
    [value |-> n, waiters |-> <<>>, fut |-> [t \in Tasks |-> "none"]]

SemLockedValueOnly(l) == l.value = 0

SemLocked(l) ==
    \/ l.value = 0
    \/ \E i \in 1..Len(l.waiters) : l.fut[l.waiters[i]] # "cancelled"

PendingAt(l) == {i \in 1..Len(l.waiters) : l.fut[l.waiters[i]] = "pending"}

LastPending(l) == CHOOSE i \in PendingAt(l) : \A j \in PendingAt(l) : j <= i

FirstPending(l) == CHOOSE i \in PendingAt(l) : \A j \in PendingAt(l) : i <= j

WakeUpNext(l) ==
    IF PendingAt(l) = {} THEN l
    ELSE [l EXCEPT !.value = @ - 1, !.fut[l.waiters[FirstPending(l)]] = "result"]

SemReleaseNoWake(l) == [l EXCEPT !.value = @ + 1]

SemRelease(l) == WakeUpNext([l EXCEPT !.value = @ + 1])

SemEnqueue(l, t) ==
    [l EXCEPT !.waiters = Append(@, t), !.fut[t] = "pending"]

RemoveWaiter(l, t) ==
    [l EXCEPT !.waiters = SelectSeq(@, LAMBDA x : x # t), !.fut[t] = "none"]

\* Task t is the next woken waiter the event loop runs: _wake_up_next set
\* fut[t]'s result, which scheduled t's wakeup with call_soon, and the loop
\* runs its callbacks in the order they were scheduled.  The futures with a
\* result are in _waiters in the order they got it.
RunsNext(l, t) ==
    /\ l.fut[t] = "result"
    /\ \A i, j \in 1..Len(l.waiters) :
           (l.waiters[j] = t /\ l.fut[l.waiters[i]] = "result") => j <= i

\* acquire() after `await fut` returned normally.
SemResumed(l, t) ==
    LET l1 == RemoveWaiter(l, t)
    IN  IF l1.value > 0 THEN WakeUpNext(l1) ELSE l1

\* acquire() after `await fut` raised CancelledError.
SemResumedCancelledKeepsPermit(l, t) == RemoveWaiter(l, t)

SemResumedCancelled(l, t) ==
    LET l1 == RemoveWaiter(l, t)
    IN  IF l.fut[t] # "cancelled" THEN SemRelease(l1) ELSE l1

\* ------------------------------------------------------------------- Init
\* Nothing counted yet.  grant[t]: the handle whose release, made while
\* pool_size tasks held leases, handed the permit to waiter t;
\* created: handles created; emptyAcquires: admitted acquires that found
\* the idle queue empty; peakLeased: most handles leased at once;
\* peakAdmitted: most tasks at once inside `async with self.lock`;
\* failed: a creation has failed.  The counts stop at the first failure.
NewHistory ==
    [grant |-> [t \in Tasks |-> 0], created |-> 0, emptyAcquires |-> 0,
     peakLeased |-> 0, peakAdmitted |-> 0, failed |-> FALSE]

\* A task that has not called response() yet.  at: where the call is;
\* questions, results: the argument and the dict of response(); index: the
\* position of the for loop; attempted: the questions run() was called for;
\* context, page, html: the locals of run(); error: an exception is pending
\* while the finally clause of run() runs; entered: the times the call
\* entered get_browser(); leases: the handles it was yielded; returns: what
\* the call returned; failed: the questions the except clause of the loop
\* skipped.
NewResponse ==
    [at |-> "idle", engine |-> "none", questions |-> <<>>, index |-> 0,
     attempted |-> <<>>, results |-> {}, context |-> "None", page |-> "None",
     html |-> "", error |-> FALSE, failed |-> {}, entered |-> 0,
     leases |-> 0, returns |-> "pending"]

Init ==
    /\ kind \in Kinds
    /\ pool_size \in 1..MaxPoolSize
    /\ lock = NewSemaphore(pool_size)
    /\ pool = <<>>
    /\ browser_instances = <<>>
    /\ pc = [t \in Tasks |-> "idle"]
    /\ held = [t \in Tasks |-> 0]
    /\ cleanups = <<>>
    /\ orphans = 0
    /\ last = Event("init", 0, 0)
    /\ history = NewHistory
    /\ response = [t \in Tasks |-> NewResponse]
    /\ contexts = [h \in 1..MaxPoolSize |-> 0]

\* --------------------------------------------------- the pool's operations
\* _create_browser_instances, after __aenter__ returned: the handle is appended.
CreateUnregistered(reg, hnd) == reg

create_browser_instances(reg, hnd) == Append(reg, hnd)

\* _release_browser_instances / _release_instance: back into the queue when
\* it holds fewer than pool_size handles, dropped otherwise.
release_browser_instances(q, h) ==
    IF Len(q) < pool_size THEN Append(q, h) ELSE q

\* self.pool.empty(), the test _get_browser_instances / _get_instance makes.
PoolEmptyAlways(q) == TRUE

PoolEmpty(q) == q = <<>>

\* What `await self.pool.get()` leaves in the queue (it returns Head(q)).
QueueGetPeek(q) == q

QueueGet(q) == Tail(q)

\* _get_browser_instances / _get_instance, run by task t right after the
\* semaphore admitted it, the semaphore being l by then.  No suspension
\* separates the admission from pool.empty() and pool.get().
get_browser_instances(t, l) ==
    \/ /\ ~PoolEmpty(pool)
       /\ pool' = QueueGet(pool)
       /\ held' = [held EXCEPT ![t] = Head(pool)]
       /\ pc' = [pc EXCEPT ![t] = "leased"]
       /\ lock' = l
       /\ last' = Event("reuse", t, Head(pool))
       /\ UNCHANGED <<browser_instances, orphans>>
    \/ /\ PoolEmpty(pool)
       /\ kind = "browser"
       \* BrowserPlaywright().__aenter__ suspends in async_playwright().start()
       /\ pc' = [pc EXCEPT ![t] = "starting_playwright"]
       /\ lock' = l
       /\ last' = Event("create_begin", t, 0)
       /\ UNCHANGED <<pool, held, browser_instances, orphans>>
    \/ /\ PoolEmpty(pool)
       /\ kind = "crawler"
       \* CrawlerInstance().__aenter__ has no suspension point: it returns
       /\ browser_instances' = create_browser_instances(browser_instances, NewCrawlerInstance)
       /\ held' = [held EXCEPT ![t] = Len(browser_instances) + 1]
       /\ pc' = [pc EXCEPT ![t] = "leased"]
       /\ lock' = l
       /\ last' = Event("create", t, Len(browser_instances) + 1)
       /\ UNCHANGED <<pool, orphans>>
    \/ /\ PoolEmpty(pool)
       /\ kind = "crawler"
       \* ... or raises: `async with self.lock` releases the semaphore
       /\ lock' = SemRelease(l)
       /\ pc' = [pc EXCEPT ![t] = "idle"]
       /\ last' = Event("create_error", t, 0)
       /\ UNCHANGED <<pool, held, browser_instances, orphans>>

\* A task enters get_browser(): `async with self.lock` runs acquire().
Acquire(t) ==
    /\ pc[t] = "idle"
    /\ IF SemLocked(lock)
       THEN /\ lock' = SemEnqueue(lock, t)
            /\ pc' = [pc EXCEPT ![t] = "waiting"]
            /\ last' = Event("wait", t, 0)
            /\ UNCHANGED <<pool, held, browser_instances, orphans>>
       ELSE get_browser_instances(t, [lock EXCEPT !.value = @ - 1])
    /\ UNCHANGED <<kind, pool_size, cleanups>>

\* A waiter whose future got its result resumes inside acquire().
Resume(t) ==
    /\ pc[t] = "waiting"
    /\ RunsNext(lock, t)
    /\ get_browser_instances(t, SemResumed(lock, t))
    /\ UNCHANGED <<kind, pool_size, cleanups>>

\* task.cancel() on a task suspended in acquire(): its pending future is cancelled.
CancelWaiter(t) ==
    /\ pc[t] = "waiting"
    /\ lock.fut[t] = "pending"
    /\ lock' = [lock EXCEPT !.fut[t] = "cancelled"]
    /\ last' = Event("cancel_request", t, 0)
    /\ UNCHANGED <<kind, pool_size, pool, browser_instances, pc, held, cleanups, orphans>>

\* The cancelled waiter resumes with CancelledError: either its future was
\* cancelled, or the future already had its result when task.cancel() came.
ResumeCancelled(t) ==
    /\ pc[t] = "waiting"
    /\ lock.fut[t] = "cancelled" \/ RunsNext(lock, t)
    /\ lock' = SemResumedCancelled(lock, t)
    /\ pc' = [pc EXCEPT ![t] = "idle"]
    /\ last' = Event("cancelled_waiting", t, 0)
    /\ UNCHANGED <<kind, pool_size, pool, browser_instances, held, cleanups, orphans>>

\* BrowserPlaywright.__aenter__: async_playwright().start() returned.
PlaywrightStarted(t) ==
    /\ pc[t] = "starting_playwright"
    /\ pc' = [pc EXCEPT ![t] = "launching_browser"]
    /\ last' = Event("playwright_started", t, 0)
    /\ UNCHANGED <<kind, pool_size, lock, pool, browser_instances, held, cleanups, orphans>>

\* chromium.launch() returned: __aenter__ returns and the handle is appended.
BrowserLaunched(t) ==
    /\ pc[t] = "launching_browser"
    /\ browser_instances' = create_browser_instances(browser_instances, NewBrowserPlaywright)
    /\ held' = [held EXCEPT ![t] = Len(browser_instances) + 1]
    /\ pc' = [pc EXCEPT ![t] = "leased"]
    /\ last' = Event("create", t, Len(browser_instances) + 1)
    /\ UNCHANGED <<kind, pool_size, lock, pool, cleanups, orphans>>

\* __aenter__ raises (start() or launch() failed, or the task was cancelled
\* in it): nothing is appended, `async with self.lock` releases the semaphore.
\* A driver that start() had started stays running: nothing refers to it.
CreateFailsKeepsSlot(t, op) ==
    /\ pc[t] \in {"starting_playwright", "launching_browser"}
    /\ pc[t] = "launching_browser" => orphans < MaxOrphans
    /\ orphans' = IF pc[t] = "launching_browser" THEN orphans + 1 ELSE orphans
    /\ pc' = [pc EXCEPT ![t] = "idle"]
    /\ last' = Event(op, t, 0)
    /\ UNCHANGED <<kind, pool_size, lock, pool, browser_instances, held, cleanups>>

CreateFailsRegisters(t, op) ==
    /\ pc[t] \in {"starting_playwright", "launching_browser"}
    /\ pc[t] = "launching_browser" => orphans < MaxOrphans
    /\ orphans' = IF pc[t] = "launching_browser" THEN orphans + 1 ELSE orphans
    /\ browser_instances' = Append(browser_instances,
           [NewBrowserPlaywright EXCEPT !.browser = FALSE])
    /\ lock' = SemRelease(lock)
    /\ pc' = [pc EXCEPT ![t] = "idle"]
    /\ last' = Event(op, t, 0)
    /\ UNCHANGED <<kind, pool_size, pool, held, cleanups>>

CreateFails(t, op) ==
    /\ pc[t] \in {"starting_playwright", "launching_browser"}
    /\ pc[t] = "launching_browser" => orphans < MaxOrphans
    /\ orphans' = IF pc[t] = "launching_browser" THEN orphans + 1 ELSE orphans
    /\ lock' = SemRelease(lock)
    /\ pc' = [pc EXCEPT ![t] = "idle"]
    /\ last' = Event(op, t, 0)
    /\ UNCHANGED <<kind, pool_size, pool, browser_instances, held, cleanups>>

\* The block under `async with pool.get_browser()` ends: it returned
\* ("release"), raised ("release_error") or was cancelled
\* ("release_cancelled"); the finally clause releases the handle, then
\* `async with self.lock` releases the semaphore.
LeaveScopeNoFinally(t, op) ==
    /\ pc[t] = "leased"
    /\ pool' = IF op = "release" THEN release_browser_instances(pool, held[t]) ELSE pool
    /\ lock' = SemRelease(lock)
    /\ held' = [held EXCEPT ![t] = 0]
    /\ pc' = [pc EXCEPT ![t] = "idle"]
    /\ last' = Event(op, t, held[t])
    /\ UNCHANGED <<kind, pool_size, browser_instances, cleanups, orphans>>

LeaveScope(t, op) ==
    /\ pc[t] = "leased"
    /\ pool' = release_browser_instances(pool, held[t])
    /\ lock' = SemRelease(lock)
    /\ held' = [held EXCEPT ![t] = 0]
    /\ pc' = [pc EXCEPT ![t] = "idle"]
    /\ last' = Event(op, t, held[t])
    /\ UNCHANGED <<kind, pool_size, browser_instances, cleanups, orphans>>

\* ---------------------------------------------------------------- cleanup
\* cleanup(): asyncio.gather(*(b.__aexit__(None, None, None) for b in
\* self.browser_instances)).  The argument list is built when gather is
\* called, so the call covers the handles in the list at that moment; each
\* __aexit__ runs as a task of its own.  sub[h] is where the __aexit__ of
\* handle h is: "start", "closing" (in browser.close() / crawler.close()),
\* "stopping" (in playwright.stop()), "done", "raised" (close() or stop()
\* raised).  gather is called without return_exceptions: the first __aexit__
\* that raises makes `await gather` raise in cleanup(), status "raised",
\* while the other __aexit__ tasks go on.  after: the calls that had
\* returned when this one was made; leaked: the orphaned drivers there were.
SnapshotNothing(reg) == <<>>

cleanup_snapshot(reg) == [h \in 1..Len(reg) |-> "start"]

Gathered(sub) == \A h \in 1..Len(sub) : sub[h] = "done"

\* The calls of cleanup() that have returned.
Returned(cs) == {c \in 1..Len(cs) : cs[c].status = "returned"}

\* gather makes the __aexit__ tasks one after the other, and the event loop
\* starts them in that order before the close() or stop() any of them waits
\* for can complete.
StartsNext(sub, h) == \A g \in 1..Len(sub) : g < h => sub[g] # "start"

AllStarted(sub) == \A g \in 1..Len(sub) : sub[g] # "start"

CleanupDrainsQueue(maxCalls) ==
    /\ Len(cleanups) < maxCalls
    /\ LET sub == cleanup_snapshot(browser_instances)
       IN  cleanups' = Append(cleanups,
               [status |-> IF Gathered(sub) THEN "returned" ELSE "running",
                sub |-> sub,
                after |-> Returned(cleanups),
                leaked |-> orphans])
    /\ pool' = <<>>
    /\ last' = Event("cleanup", 0, 0)
    /\ UNCHANGED <<kind, pool_size, lock, browser_instances, pc, held, orphans>>

cleanup(maxCalls) ==
    /\ Len(cleanups) < maxCalls
    /\ LET sub == cleanup_snapshot(browser_instances)
       IN  cleanups' = Append(cleanups,
               [status |-> IF Gathered(sub) THEN "returned" ELSE "running",
                sub |-> sub,
                after |-> Returned(cleanups),
                leaked |-> orphans])
    /\ last' = Event("cleanup", 0, 0)
    /\ UNCHANGED <<kind, pool_size, lock, pool, browser_instances, pc, held, orphans>>

\* BrowserPlaywright.__aexit__ / CrawlerInstance.__aexit__ from its start to
\* its first suspension.
AexitStart(c, h) ==
    /\ c \in 1..Len(cleanups)
    /\ h \in 1..Len(cleanups[c].sub)
    /\ cleanups[c].sub[h] = "start"
    /\ StartsNext(cleanups[c].sub, h)
    /\ LET b == browser_instances[h]
       IN  \/ /\ b.browser
              /\ browser_instances' = [browser_instances EXCEPT ![h].closeCalls = @ + 1]
              /\ cleanups' = [cleanups EXCEPT ![c].sub[h] = "closing"]
           \/ /\ ~b.browser
              /\ b.playwright
              /\ browser_instances' = [browser_instances EXCEPT ![h].stopCalls = @ + 1]
              /\ cleanups' = [cleanups EXCEPT ![c].sub[h] = "stopping"]
           \/ /\ ~b.browser
              /\ ~b.playwright
              /\ cleanups' = [cleanups EXCEPT ![c].sub[h] = "done"]
              /\ UNCHANGED browser_instances
    /\ last' = Event("aexit", 0, h)
    /\ UNCHANGED <<kind, pool_size, lock, pool, pc, held, orphans>>

\* `await self.browser.close()` returned: BrowserPlaywright sets
\* self.browser = None and goes on to the playwright; CrawlerInstance keeps
\* self.crawler and returns.
AexitClosed(c, h) ==
    /\ c \in 1..Len(cleanups)
    /\ h \in 1..Len(cleanups[c].sub)
    /\ cleanups[c].sub[h] = "closing"
    /\ AllStarted(cleanups[c].sub)
    /\ \/ /\ kind = "browser"
          /\ browser_instances[h].playwright
          /\ browser_instances' = [browser_instances EXCEPT
                 ![h].browser = FALSE, ![h].stopCalls = @ + 1]
          /\ cleanups' = [cleanups EXCEPT ![c].sub[h] = "stopping"]
       \/ /\ kind = "browser"
          /\ ~browser_instances[h].playwright
          /\ browser_instances' = [browser_instances EXCEPT ![h].browser = FALSE]
          /\ cleanups' = [cleanups EXCEPT ![c].sub[h] = "done"]
       \/ /\ kind = "crawler"
          /\ cleanups' = [cleanups EXCEPT ![c].sub[h] = "done"]
          /\ UNCHANGED browser_instances
    /\ last' = Event("closed", 0, h)
    /\ UNCHANGED <<kind, pool_size, lock, pool, pc, held, orphans>>

\* `await self.playwright.stop()` returned: self.playwright = None.
AexitStopped(c, h) ==
    /\ c \in 1..Len(cleanups)
    /\ h \in 1..Len(cleanups[c].sub)
    /\ cleanups[c].sub[h] = "stopping"
    /\ AllStarted(cleanups[c].sub)
    /\ browser_instances' = [browser_instances EXCEPT ![h].playwright = FALSE]
    /\ cleanups' = [cleanups EXCEPT ![c].sub[h] = "done"]
    /\ last' = Event("stopped", 0, h)
    /\ UNCHANGED <<kind, pool_size, lock, pool, pc, held, orphans>>

\* The __aexit__ runs that raised, as <<call, handle>>.
Raised(cs) ==
    {x \in (1..Len(cs)) \X (1..MaxPoolSize) :
        x[2] <= Len(cs[x[1]].sub) /\ cs[x[1]].sub[x[2]] = "raised"}

\* `await self.browser.close()` / `await self.crawler.close()` /
\* `await self.playwright.stop()` raised: __aexit__ ends there, the
\* assignments after the await are not made.
AexitRaises(c, h) ==
    /\ c \in 1..Len(cleanups)
    /\ h \in 1..Len(cleanups[c].sub)
    /\ cleanups[c].sub[h] \in {"closing", "stopping"}
    /\ AllStarted(cleanups[c].sub)
    /\ Cardinality(Raised(cleanups)) < MaxRaised
    /\ cleanups' = [cleanups EXCEPT ![c].sub[h] = "raised"]
    /\ last' = Event("aexit_error", 0, h)
    /\ UNCHANGED <<kind, pool_size, lock, pool, browser_instances, pc, held, orphans>>

\* An __aexit__ of the gather raised: the exception leaves cleanup().
CleanupRaises(c) ==
    /\ c \in 1..Len(cleanups)
    /\ cleanups[c].status = "running"
    /\ \E h \in 1..Len(cleanups[c].sub) : cleanups[c].sub[h] = "raised"
    /\ cleanups' = [cleanups EXCEPT ![c].status = "raised"]
    /\ last' = Event("cleanup_raised", 0, 0)
    /\ UNCHANGED <<kind, pool_size, lock, pool, browser_instances, pc, held, orphans>>

\* Every __aexit__ of the gather is done: cleanup() returns.
CleanupReturns(c) ==
    /\ c \in 1..Len(cleanups)
    /\ cleanups[c].status = "running"
    /\ Gathered(cleanups[c].sub)
    /\ cleanups' = [cleanups EXCEPT ![c].status = "returned"]
    /\ last' = Event("cleanup_returned", 0, 0)
    /\ UNCHANGED <<kind, pool_size, lock, pool, browser_instances, pc, held, orphans>>

\* ------------------------------------------------------------------- Next
\* The steps the tasks of T can take in get_browser() / get_crawler();
\* nothing is counted.
PoolStep(T) ==
    \/ \E t \in T : Acquire(t) /\ UNCHANGED <<history, engineVars>>
    \/ \E t \in T : Resume(t) /\ UNCHANGED <<history, engineVars>>
    \/ \E t \in T : CancelWaiter(t) /\ UNCHANGED <<history, engineVars>>
    \/ \E t \in T : ResumeCancelled(t) /\ UNCHANGED <<history, engineVars>>
    \/ \E t \in T : PlaywrightStarted(t) /\ UNCHANGED <<history, engineVars>>
    \/ \E t \in T : BrowserLaunched(t) /\ UNCHANGED <<history, engineVars>>
    \/ \E t \in T : \E op \in {"create_error", "create_cancelled"} :
           CreateFails(t, op) /\ UNCHANGED <<history, engineVars>>
    \/ \E t \in T : \E op \in {"release", "release_error", "release_cancelled"} :
           LeaveScope(t, op) /\ UNCHANGED <<history, engineVars>>

\* The steps of at most maxCalls calls of cleanup().
CleanupStep(maxCalls) ==
    \/ cleanup(maxCalls) /\ UNCHANGED <<history, engineVars>>
    \/ \E c \in 1..maxCalls : \E h \in 1..Len(browser_instances) :
           AexitStart(c, h) /\ UNCHANGED <<history, engineVars>>
    \/ \E c \in 1..maxCalls : \E h \in 1..Len(browser_instances) :
           AexitClosed(c, h) /\ UNCHANGED <<history, engineVars>>
    \/ \E c \in 1..maxCalls : \E h \in 1..Len(browser_instances) :
           AexitStopped(c, h) /\ UNCHANGED <<history, engineVars>>
    \/ \E c \in 1..maxCalls : \E h \in 1..Len(browser_instances) :
           AexitRaises(c, h) /\ UNCHANGED <<history, engineVars>>
    \/ \E c \in 1..maxCalls : CleanupRaises(c) /\ UNCHANGED <<history, engineVars>>
    \/ \E c \in 1..maxCalls : CleanupReturns(c) /\ UNCHANGED <<history, engineVars>>

NextFor(T, maxCalls) == PoolStep(T) \/ CleanupStep(maxCalls)

Next == NextFor(Tasks, PoolCleanups)

NextCleanup == NextFor(1..CleanupTasks, MaxCleanups)

Spec == Init /\ [][Next]_vars

SpecCleanup == Init /\ [][NextCleanup]_vars

\* The callers alone, under the scheduling the code runs with: the event
\* loop runs every task whose wakeup is scheduled (a woken or cancelled
\* waiter resumes), every creation returns or fails, and every lease holder
\* leaves its block.  Whether a task calls get_browser() again, and whether
\* a waiter is cancelled, is up to the callers.
NextLive == PoolStep(Tasks)

Fairness ==
    \A t \in Tasks :
        /\ WF_vars((Resume(t) \/ ResumeCancelled(t)) /\ UNCHANGED <<history, engineVars>>)
        /\ WF_vars(/\ \/ PlaywrightStarted(t)
                       \/ BrowserLaunched(t)
                       \/ \E op \in {"create_error", "create_cancelled"} : CreateFails(t, op)
                    /\ UNCHANGED <<history, engineVars>>)
        /\ WF_vars(/\ \E op \in {"release", "release_error", "release_cancelled"} :
                          LeaveScope(t, op)
                    /\ UNCHANGED <<history, engineVars>>)

SpecLive == Init /\ [][NextLive]_vars /\ Fairness

\* ---------------------------------------------------------------- engines
\* BaiduSearch, QuarkSearch and SougouSearch: response(questions) leases a
\* browser from a BrowserPool and calls run(browser, question) and
\* parsing(html) for each question.
Engines == {"BaiduSearch", "QuarkSearch", "SougouSearch"}

\* "" is the empty question, for which run() returns "" at once.
Questions == {"", "a"}

QuestionLists == UNION {[1..n -> Questions] : n \in 0..MaxQuestions}

SearchTasks == 1..NumSearches

poolVars == <<kind, pool_size, lock, pool, browser_instances, pc, held, cleanups, orphans>>

\* get_browser() yields a handle to the call of task t: the body of the
\* `async with` of response() is entered.
Yielded(t) ==
    response' = [response EXCEPT ![t].leases =
                    IF pc[t] # "leased" /\ pc'[t] = "leased" THEN @ + 1 ELSE @]

\* response(questions): None at once for no questions, else
\* `async with self.browser_pool.get_browser() as browser`.  The calls of
\* one run are made on engines of one class.
ResponseCall(t, e, qs) ==
    /\ response[t].at = "idle"
    /\ \A u \in Tasks : response[u].engine \in {"none", e}
    /\ IF qs = <<>>
       THEN /\ response' = [response EXCEPT ![t] =
                   [@ EXCEPT !.engine = e, !.at = "returned", !.returns = "None"]]
            /\ UNCHANGED <<poolVars, last>>
       ELSE /\ Acquire(t)
            /\ response' = [response EXCEPT ![t] =
                   [@ EXCEPT !.engine = e, !.questions = qs, !.at = "get_browser",
                             !.entered = @ + 1,
                             !.leases = IF pc'[t] = "leased" THEN @ + 1 ELSE @]]
    /\ UNCHANGED contexts

\* get_browser() raises out of the `async with`: an Exception is caught by
\* the outer except and response() returns None; a CancelledError is no
\* Exception and leaves response().
GetBrowserFails(t, op) ==
    /\ response[t].at = "get_browser"
    /\ CreateFails(t, op)
    /\ response' = [response EXCEPT ![t] =
           [@ EXCEPT !.at = "returned",
                     !.returns = IF op = "create_error" THEN "None" ELSE "raised"]]
    /\ UNCHANGED contexts

\* The for loop takes the next question and calls run().
ForQuestion(t) ==
    LET r == response[t]
        i == r.index + 1
    IN  /\ pc[t] = "leased"
        /\ r.at \in {"get_browser", "loop"}
        /\ r.index < Len(r.questions)
        /\ response' = [response EXCEPT ![t] =
               [r EXCEPT !.index = i, !.attempted = Append(@, i),
                         !.at = IF r.questions[i] = "" THEN "run_returned"
                                ELSE "new_context"]]
        /\ UNCHANGED <<poolVars, last, contexts>>

\* browser.browser.new_context() returns or raises.  No context exists
\* when it raises, so run() raises with nothing to close.
NewContext(t, ok) ==
    LET r == response[t]
    IN  /\ r.at = "new_context"
        /\ response' = [response EXCEPT ![t] =
               IF ok THEN [r EXCEPT !.context = "open", !.at = "new_page"]
               ELSE [r EXCEPT !.at = "run_raised"]]
        /\ contexts' = IF ok THEN [contexts EXCEPT ![held[t]] = @ + 1] ELSE contexts
        /\ UNCHANGED <<poolVars, last>>

\* How run() of SougouSearch differs: new_context() and new_page() are
\* inside the try, whose finally closes what is not None.
NewPageInTry(e) == e = "SougouSearch"

\* context.new_page() returns or raises.
NewPage(t, ok) ==
    LET r == response[t]
    IN  /\ r.at = "new_page"
        /\ response' = [response EXCEPT ![t] =
               IF ok THEN [r EXCEPT !.page = "open", !.at = "search"]
               ELSE IF NewPageInTry(r.engine)
                    THEN [r EXCEPT !.error = TRUE, !.at = "context_close"]
                    ELSE [r EXCEPT !.at = "run_raised"]]
        /\ UNCHANGED <<poolVars, last, contexts>>

\* goto, fill, click, wait_for_selector, content: the search returns the
\* html or raises (a timeout or another error); the finally clause runs.
Search(t, ok) ==
    LET r == response[t]
    IN  /\ r.at = "search"
        /\ response' = [response EXCEPT ![t] =
               [r EXCEPT !.html = IF ok THEN "html" ELSE "", !.error = ~ok,
                         !.at = "page_close"]]
        /\ UNCHANGED <<poolVars, last, contexts>>

\* finally: await page.close().  When it raises, the rest of the finally
\* clause is not run.
PageClose(t, ok) ==
    LET r == response[t]
    IN  /\ r.at = "page_close"
        /\ response' = [response EXCEPT ![t] =
               IF ok THEN [r EXCEPT !.page = "closed", !.at = "context_close"]
               ELSE [r EXCEPT !.at = "run_raised"]]
        /\ UNCHANGED <<poolVars, last, contexts>>

\* finally: await context.close(); then run() returns the html or raises
\* the exception that was pending.
ContextClose(t, ok) ==
    LET r == response[t]
    IN  /\ r.at = "context_close"
        /\ response' = [response EXCEPT ![t] =
               IF ok THEN [r EXCEPT !.context = "closed",
                                    !.at = IF r.error THEN "run_raised" ELSE "run_returned"]
               ELSE [r EXCEPT !.at = "run_raised"]]
        /\ contexts' = IF ok THEN [contexts EXCEPT ![held[t]] = @ - 1] ELSE contexts
        /\ UNCHANGED <<poolVars, last>>

\* The locals of run() when run() is over.
NoLocals(r) == [r EXCEPT !.context = "None", !.page = "None", !.html = "", !.error = FALSE]

\* parsing(html): None for no html, for no result and for an error (it
\* catches every Exception); else the list of results, which response()
\* stores under the question.
parsing(html, outcome) == html # "" /\ outcome = "results"

Parsing(t, outcome) ==
    LET r == response[t]
    IN  /\ r.at = "run_returned"
        /\ response' = [response EXCEPT ![t] =
               [NoLocals(r) EXCEPT
                    !.results = IF parsing(r.html, outcome)
                                THEN @ \cup {r.questions[r.index]} ELSE @,
                    !.at = "loop"]]
        /\ UNCHANGED <<poolVars, last, contexts>>

QuestionFailsEndsLoop(t) ==
    LET r == response[t]
    IN  /\ r.at = "run_raised"
        /\ response' = [response EXCEPT ![t] =
               [NoLocals(r) EXCEPT !.at = "loop", !.failed = @ \cup {r.index},
                                   !.index = Len(r.questions)]]
        /\ UNCHANGED <<poolVars, last, contexts>>

\* except Exception: continue.
QuestionFails(t) ==
    LET r == response[t]
    IN  /\ r.at = "run_raised"
        /\ response' = [response EXCEPT ![t] =
               [NoLocals(r) EXCEPT !.at = "loop", !.failed = @ \cup {r.index}]]
        /\ UNCHANGED <<poolVars, last, contexts>>

\* The loop is over: the `async with` releases the lease and response()
\* returns `results if results else None`.
ResponseReturns(t) ==
    LET r == response[t]
    IN  /\ r.at \in {"get_browser", "loop"}
        /\ r.index = Len(r.questions)
        /\ LeaveScope(t, "release")
        /\ response' = [response EXCEPT ![t] =
               [r EXCEPT !.at = "returned",
                         !.returns = IF r.results # {} THEN "results" ELSE "None"]]
        /\ UNCHANGED contexts

\* The steps of the tasks that call response().
EngineStep(T) ==
    \/ \E t \in T : \E e \in Engines : \E qs \in QuestionLists :
           ResponseCall(t, e, qs) /\ UNCHANGED history
    \/ \E t \in T : Resume(t) /\ Yielded(t) /\ UNCHANGED <<history, contexts>>
    \/ \E t \in T : PlaywrightStarted(t) /\ UNCHANGED <<history, engineVars>>
    \/ \E t \in T : BrowserLaunched(t) /\ Yielded(t) /\ UNCHANGED <<history, contexts>>
    \/ \E t \in T : \E op \in {"create_error", "create_cancelled"} :
           GetBrowserFails(t, op) /\ UNCHANGED history
    \/ \E t \in T : ForQuestion(t) /\ UNCHANGED history
    \/ \E t \in T : \E ok \in BOOLEAN : NewContext(t, ok) /\ UNCHANGED history
    \/ \E t \in T : \E ok \in BOOLEAN : NewPage(t, ok) /\ UNCHANGED history
    \/ \E t \in T : \E ok \in BOOLEAN : Search(t, ok) /\ UNCHANGED history
    \/ \E t \in T : \E ok \in BOOLEAN : PageClose(t, ok) /\ UNCHANGED history
    \/ \E t \in T : \E ok \in BOOLEAN : ContextClose(t, ok) /\ UNCHANGED history
    \/ \E t \in T : \E outcome \in {"results", "none", "error"} :
           Parsing(t, outcome) /\ UNCHANGED history
    \/ \E t \in T : QuestionFails(t) /\ UNCHANGED history
    \/ \E t \in T : ResponseReturns(t) /\ UNCHANGED history

\* The engines are given a BrowserPool.
InitEngine == Init /\ kind = "browser"

NextEngine == EngineStep(SearchTasks)

SpecEngine == InitEngine /\ [][NextEngine]_vars

\* ================================================================= claims
\* Vocabulary of the claims.
\* Tasks inside the body of `async with self.lock`: admitted and resumed.
InScope == {t \in Tasks : pc[t] \in {"starting_playwright", "launching_browser", "leased"}}

\* Waiters the semaphore has admitted (_wake_up_next took the permit for
\* them and set their future's result) and that have not resumed yet.
Woken == {t \in Tasks : lock.fut[t] = "result"}

Leased == {t \in Tasks : pc[t] = "leased"}

InQueue(q, h) == \E i \in 1..Len(q) : q[i] = h

\* C1: at most pool_size tasks are at any time between their admission by
\* the semaphore and the end of their scope (creating a handle or holding
\* one), for every pool_size and any number of concurrent callers.
C1_LeasedAtMostPoolSize ==
    /\ Cardinality(InScope \cup Woken) <= pool_size
    /\ Cardinality(Leased) <= pool_size

\* All pool_size slots are taken by lease holders while another caller waits.
C1_Witness ==
    /\ pool_size = MaxPoolSize
    /\ Cardinality(Leased) = pool_size
    /\ \E t \in Tasks : pc[t] = "waiting" /\ lock.fut[t] = "pending"

\* C2: no handle is held by two tasks at once, no handle is both leased and
\* in the idle queue, and no handle is in the idle queue twice.
C2_HandleNeverShared ==
    /\ \A t1, t2 \in Tasks :
           (t1 # t2 /\ held[t1] # 0) => held[t1] # held[t2]
    /\ \A t \in Tasks : held[t] # 0 => ~InQueue(pool, held[t])
    /\ \A i, j \in 1..Len(pool) : i # j => pool[i] # pool[j]
    /\ \A t \in Tasks : (held[t] # 0) <=> (pc[t] = "leased")

\* A task holds a reused handle while another handle is idle.
C2_Witness ==
    /\ last.op = "reuse"
    /\ held[last.task] = last.handle
    /\ pool # <<>>

\* C3: on every way of leaving the scoped block (return, exception,
\* cancellation) the handle the task held is back in the idle queue and the
\* semaphore slot is given back: the permit count rises by one or one more
\* waiter is admitted.
C3_ReleasedOnEveryExit ==
    [][\A t \in Tasks :
          (pc[t] = "leased" /\ pc'[t] # "leased") =>
              /\ InQueue(pool', held[t])
              /\ held'[t] = 0
              /\ lock'.value + Cardinality(Woken') = lock.value + Cardinality(Woken) + 1
              /\ last'.op \in {"release", "release_error", "release_cancelled"}]_vars

\* A task was cancelled inside the block; its handle is idle, every permit free.
C3_Witness ==
    /\ last.op = "release_cancelled"
    /\ InQueue(pool, last.handle)
    /\ pc[last.task] = "idle"
    /\ lock.value = pool_size

\* C4: free permits + tasks the semaphore has admitted and that are still
\* inside get_browser (resumed or not) = pool_size; when no task is inside
\* get_browser every permit is free.
C4_NoSlotLost ==
    /\ lock.value + Cardinality(InScope \cup Woken) = pool_size
    /\ (\A t \in Tasks : pc[t] = "idle") => lock.value = pool_size

\* After a creation failure every task is out and every permit is free again.
C4_Witness ==
    /\ last.op \in {"create_error", "create_cancelled"}
    /\ \A t \in Tasks : pc[t] = "idle"
    /\ lock.value = pool_size
    /\ browser_instances # <<>>

C6_AllClosedAfterCleanup ==
    Returned(cleanups) # {} =>
        \A h \in 1..Len(browser_instances) : HandleClosed(browser_instances[h])

\* C7: a call of cleanup() made after an earlier call has returned is a
\* no-op: none of its steps changes a handle the earlier call covered (no
\* further close), the idle queue or the registry.
C7_SecondCleanupNoOp ==
    [][\A c \in 1..Len(cleanups) :
          (cleanups[c].after # {} /\ cleanups'[c] # cleanups[c]) =>
              /\ \A d \in cleanups[c].after : \A h \in 1..Len(cleanups[d].sub) :
                     browser_instances'[h] = browser_instances[h]
              /\ pool' = pool
              /\ Len(browser_instances') = Len(browser_instances)]_vars

\* C8: every handle an acquire yields is open when it is yielded.
C8_YieldedHandleReady ==
    last.op \in {"reuse", "create"} => HandleReady(browser_instances[last.handle])

\* A step in which the creation of a handle for task t fails: __aenter__
\* raised, or the task was cancelled in it.
CreationFails(t) ==
    /\ last'.op \in {"create_error", "create_cancelled"}
    /\ last'.task = t

\* C9: when the creation of a handle fails inside an admitted acquire, the
\* caller leaves get_browser without a handle and its semaphore slot is freed
\* in the same step: a waiter, if there is one, is admitted by that step (no
\* other lease is released for it), otherwise a permit is free.
C9_SlotFreedOnCreationFailure ==
    [][\A t \in Tasks : CreationFails(t) =>
          /\ pc'[t] = "idle"
          /\ held'[t] = 0
          /\ lock'.fut[t] = "none"
          /\ IF \E u \in Tasks \ {t} : lock.fut[u] = "pending"
             THEN \E u \in Tasks \ {t} :
                      lock.fut[u] = "pending" /\ lock'.fut[u] = "result"
             ELSE lock'.value >= 1]_vars

\* pool_size = 1: the only admitted task failed to create its handle, and a
\* waiter has been admitted although no lease was ever released.
C9_Witness ==
    /\ pool_size = 1
    /\ last.op = "create_error"
    /\ Woken # {}
    /\ browser_instances = <<>>
    /\ pool = <<>>

\* C10: a failed creation leaves the registry and the idle queue as they
\* were: nothing is appended to browser_instances, nothing enters the queue.
C10_FailedCreationKeepsBookkeeping ==
    [][\A t \in Tasks : CreationFails(t) =>
          /\ browser_instances' = browser_instances
          /\ pool' = pool]_vars

\* A creation failed while the pool held a handle, idle in the queue.
C10_Witness ==
    /\ last.op = "create_error"
    /\ Len(browser_instances) = 1
    /\ pool = <<1>>

\* The calls of cleanup() that have ended, by return or by exception.
Finished(cs) == {c \in 1..Len(cs) : cs[c].status \in {"returned", "raised"}}

\* C11: after a creation that started the playwright driver and then failed
\* (chromium.launch() raised), a later call of cleanup() leaves none of the
\* drivers running that were orphaned when it was called.  orphans counts
\* the orphaned drivers that run: no code stops one.
C11_NoOrphanAfterCleanup ==
    \A c \in Finished(cleanups) : cleanups[c].leaked > 0 => orphans = 0

\* C12: when a call of cleanup() has ended, by return or by exception, every
\* handle it covered whose own __aexit__ did not raise is closed.
C12_OthersClosedDespiteFailure ==
    \A c \in Finished(cleanups) : \A h \in 1..Len(cleanups[c].sub) :
        cleanups[c].sub[h] # "raised" => HandleClosed(browser_instances[h])

\* C13: no call of cleanup() ends by an exception: when an __aexit__ raises,
\* cleanup() still returns normally.
C13_CleanupNeverRaises ==
    \A c \in 1..Len(cleanups) :
        (\E h \in 1..Len(cleanups[c].sub) : cleanups[c].sub[h] = "raised") =>
            cleanups[c].status # "raised"

\* Where task t's future is in _waiters (t is a waiter).
Position(l, t) == CHOOSE i \in 1..Len(l.waiters) : l.waiters[i] = t

\* Task a began to wait on the semaphore before task b began its acquire,
\* and a still waits (its future is not cancelled): a is in _waiters, and b
\* is behind it there or has not called acquire() yet.
WaitsBefore(a, b) ==
    /\ a # b
    /\ lock.fut[a] \in {"pending", "result"}
    /\ lock.fut[b] # "none" => Position(lock, a) < Position(lock, b)

\* A step in which task t enters the body of `async with self.lock` and
\* runs _get_browser_instances: it is yielded a handle, begins to create
\* one, or fails to create one.
Admitted(t) ==
    /\ pc[t] \in {"idle", "waiting"}
    /\ last'.task = t
    /\ last'.op \in {"reuse", "create", "create_begin", "create_error"}

\* C14: admission is FIFO.  While task a, which began to wait before task b
\* began its acquire, still waits, no step admits b, and no step hands b a
\* permit of the semaphore while a stays without one; this includes a task
\* b that arrives when a permit was handed to a and a has not resumed yet.
C14_AdmissionFIFO ==
    [][\A a, b \in Tasks : WaitsBefore(a, b) =>
          /\ ~Admitted(b)
          /\ ~(/\ lock.fut[a] = "pending"
               /\ lock'.fut[a] = "pending"
               /\ lock.fut[b] # "result"
               /\ lock'.fut[b] = "result")]_vars

\* Task b arrived while a permit was free and had to queue behind task a,
\* which holds the permit handed to it and has not resumed yet.
C14_Witness ==
    /\ last.op = "wait"
    /\ lock.value > 0
    /\ \E a \in Tasks :
           /\ lock.fut[a] = "result"
           /\ lock.fut[last.task] = "pending"
           /\ Position(lock, a) < Position(lock, last.task)

\* C15: no starvation.  Every task that has called get_browser() and waits
\* for the semaphore or for the creation of its handle is eventually yielded
\* a handle, or leaves get_browser() with the creation failure (or with the
\* cancellation its caller asked for), however the other tasks go on
\* acquiring and releasing.
C15_NoStarvation ==
    \A t \in Tasks :
        (pc[t] \in {"waiting", "starting_playwright", "launching_browser"})
            ~> (pc[t] \in {"leased", "idle"})

\* A task that had to wait has been admitted while another task still waits.
C15_Witness ==
    /\ last.op \in {"reuse", "create", "create_begin"}
    /\ pc[last.task] # "idle"
    /\ \E u \in Tasks : lock.fut[u] = "pending"

\* ------------------------------------------------------- counting a run
ReleaseOps == {"release", "release_error", "release_cancelled"}

Max(a, b) == IF a > b THEN a ELSE b

\* What a step adds to the counts.
Record ==
    LET failed == history.failed \/ last'.op \in {"create_error", "create_cancelled"}
        count(was, now) == IF failed THEN was ELSE now
    IN  history' =
            [grant |-> [t \in Tasks |->
                 IF /\ Cardinality(Leased) = pool_size
                    /\ last'.op \in ReleaseOps
                    /\ lock.fut[t] = "pending"
                    /\ lock'.fut[t] = "result"
                 THEN last'.handle
                 ELSE IF pc'[t] = "idle" THEN 0 ELSE history.grant[t]],
             created |-> count(history.created,
                 IF last'.op = "create" THEN history.created + 1 ELSE history.created),
             emptyAcquires |-> count(history.emptyAcquires,
                 IF PoolEmpty(pool) /\ \E t \in Tasks : Admitted(t)
                 THEN history.emptyAcquires + 1 ELSE history.emptyAcquires),
             peakLeased |-> count(history.peakLeased,
                 Max(history.peakLeased, Cardinality(Leased'))),
             peakAdmitted |-> count(history.peakAdmitted,
                 Max(history.peakAdmitted, Cardinality(InScope'))),
             failed |-> failed]

\* The steps of the tasks of T, counted.
RecordedStep(T) ==
    \/ \E t \in T : Acquire(t) /\ Record /\ UNCHANGED engineVars
    \/ \E t \in T : Resume(t) /\ Record /\ UNCHANGED engineVars
    \/ \E t \in T : CancelWaiter(t) /\ Record /\ UNCHANGED engineVars
    \/ \E t \in T : ResumeCancelled(t) /\ Record /\ UNCHANGED engineVars
    \/ \E t \in T : PlaywrightStarted(t) /\ Record /\ UNCHANGED engineVars
    \/ \E t \in T : BrowserLaunched(t) /\ Record /\ UNCHANGED engineVars
    \/ \E t \in T : \E op \in {"create_error", "create_cancelled"} :
           CreateFails(t, op) /\ Record /\ UNCHANGED engineVars
    \/ \E t \in T : \E op \in ReleaseOps : LeaveScope(t, op) /\ Record /\ UNCHANGED engineVars

NextHistory == RecordedStep(Tasks)

SpecHistory == Init /\ [][NextHistory]_vars

\* C16: while pool_size tasks hold leases, no further task is admitted; the
\* release of one of these leases hands the permit to the first waiter, and
\* that waiter, when it resumes (unless its caller cancelled it), is yielded
\* the handle that release put back: no handle is created.
C16_WaiterGetsReleasedHandle ==
    [][\A t \in Tasks :
          /\ Cardinality(Leased) = pool_size => ~Admitted(t)
          /\ (/\ Cardinality(Leased) = pool_size
              /\ pc[t] = "leased"
              /\ pc'[t] # "leased"
              /\ PendingAt(lock) # {}) =>
                 history'.grant[lock.waiters[FirstPending(lock)]] = held[t]
          /\ (/\ history.grant[t] # 0
              /\ pc[t] = "waiting"
              /\ pc'[t] # "waiting"
              /\ last'.op # "cancelled_waiting") =>
                 /\ last'.op = "reuse"
                 /\ held'[t] = history.grant[t]
                 /\ browser_instances' = browser_instances]_vars

\* pool_size = 2, three callers: the third, which waited, holds the handle
\* whose release admitted it, and the registry still has two handles.
C16_Witness ==
    /\ pool_size = 2
    /\ last.op = "reuse"
    /\ last.handle # 0
    /\ history.grant[last.task] = last.handle
    /\ held[last.task] = last.handle
    /\ Cardinality(Leased) = 2
    /\ Len(browser_instances) = 2

\* C17, as the specification states it: as long as no creation has failed,
\* the registry holds as many handles as were created, at most as many as
\* there were admitted acquires that found the idle queue empty, and never
\* more than the largest number of handles leased at once.
C17_RegistryWithinPeakLeased ==
    ~history.failed =>
        /\ Len(browser_instances) = history.created
        /\ Len(browser_instances) <= history.emptyAcquires
        /\ Len(browser_instances) <= history.peakLeased

\* C17, amended: ... and never more than the largest number of tasks that
\* were at once inside `async with self.lock`, holding a handle or waiting
\* for the creation of theirs, which is at most pool_size.
C17_RegistryWithinPeakAdmitted ==
    ~history.failed =>
        /\ Len(browser_instances) = history.created
        /\ Len(browser_instances) <= history.emptyAcquires
        /\ Len(browser_instances) <= history.peakAdmitted
        /\ history.peakAdmitted <= pool_size
        /\ kind = "crawler" => Len(browser_instances) <= history.peakLeased

\* Two handles exist although no two were ever leased at once: the second
\* was being created while the first was released.
C17_Witness ==
    /\ ~history.failed
    /\ Len(browser_instances) = 2
    /\ history.emptyAcquires = 2
    /\ history.peakAdmitted = 2
    /\ history.peakLeased = 1
    /\ last.op \in ReleaseOps

\* C18: what the model can say about the branch of release that does not
\* put the handle back: no release takes it.  Every release finds fewer
\* than pool_size handles in the idle queue and appends its handle.
C18_ReleaseAlwaysPutsBack ==
    [][\A t \in Tasks : (pc[t] = "leased" /\ pc'[t] # "leased") =>
          /\ Len(pool) < pool_size
          /\ pool' = Append(pool, held[t])]_vars

\* A step in which task t, cancelled (or timed out) while it waited for the
\* semaphore, leaves acquire() with CancelledError.
CancelledWaiting(t) ==
    /\ pc[t] = "waiting"
    /\ last'.op = "cancelled_waiting"
    /\ last'.task = t

\* C19: a task cancelled while it waits for admission never got a handle and
\* leaves the pool as if it had not called: idle queue, registry and leases
\* are untouched, it is out of _waiters, and no permit stays with it: the
\* free permits plus the permits handed to waiters are as many as before,
\* so a permit that had been handed to it goes to the next waiter or is free
\* again.  Cancelled waiters do not block those behind them: a permit is
\* free while a task waits only when a woken waiter is about to resume.
C19_CancelledWaiterLeavesNoTrace ==
    /\ [][\A t \in Tasks : CancelledWaiting(t) =>
             /\ pc'[t] = "idle"
             /\ held[t] = 0
             /\ held' = held
             /\ pool' = pool
             /\ browser_instances' = browser_instances
             /\ lock'.fut[t] = "none"
             /\ \A i \in 1..Len(lock'.waiters) : lock'.waiters[i] # t
             /\ lock'.value + Cardinality(Woken') = lock.value + Cardinality(Woken)
             /\ lock'.value + Cardinality(InScope' \cup Woken') = pool_size
             /\ (lock.fut[t] = "result" /\ PendingAt(lock) # {}) =>
                    lock'.fut[lock.waiters[FirstPending(lock)]] = "result"]_vars
    /\ []((lock.value > 0 /\ PendingAt(lock) # {}) => Woken # {})

\* A waiter was cancelled; the permit went to a waiter behind it.
C19_Witness ==
    /\ last.op = "cancelled_waiting"
    /\ pc[last.task] = "idle"
    /\ lock.fut[last.task] = "none"
    /\ lock.value = 0
    /\ Woken # {}
    /\ InScope = {}

\* C20: browser.close() / crawler.close() and playwright.stop() are called
\* at most once on each handle, however many calls of cleanup() there are,
\* and exactly once on each handle a call of cleanup() that has returned
\* covered.
C20_ClosedExactlyOnce ==
    \A h \in 1..Len(browser_instances) :
        /\ browser_instances[h].closeCalls <= 1
        /\ browser_instances[h].stopCalls <= 1
        /\ (\E c \in Returned(cleanups) : h <= Len(cleanups[c].sub)) =>
               /\ browser_instances[h].closeCalls = 1
               /\ kind = "browser" => browser_instances[h].stopCalls = 1

\* The handles of the registry reg (a handle is its index in it).
Registered(reg) == 1..Len(reg)

\* C21: the registry is exhaustive and monotone.  Every handle that is
\* leased or idle in the queue is in browser_instances; the step that first
\* yields a handle leaves it in browser_instances; no step of acquire,
\* release or cleanup() removes a handle from browser_instances.
C21_RegistryExhaustiveMonotone ==
    /\ [](/\ \A t \in Tasks : held[t] # 0 => held[t] \in Registered(browser_instances)
          /\ \A i \in 1..Len(pool) : pool[i] \in Registered(browser_instances))
    /\ [][/\ last'.op \in {"create", "reuse"} =>
                last'.handle \in Registered(browser_instances')
          /\ Registered(browser_instances) \subseteq Registered(browser_instances')]_vars

\* After a call of cleanup() ended the registry still has both handles, one
\* leased and one idle.
C21_Witness ==
    /\ Finished(cleanups) # {}
    /\ Len(browser_instances) = 2
    /\ pool # <<>>
    /\ Leased # {}

\* C22: release is permissive.  However the block under the lease ended
\* (returned, raised, was cancelled or timed out), the step that leaves it
\* brings the pool into the one state a successful block would: the handle
\* is appended to the idle queue, the semaphore is released once, the
\* registry and with it the handle's open/closed state are untouched.
C22_ReleasePermissive ==
    [][\A t \in Tasks : (pc[t] = "leased" /\ pc'[t] # "leased") =>
          /\ last'.op \in ReleaseOps
          /\ pool' = Append(pool, held[t])
          /\ lock' = SemRelease(lock)
          /\ held' = [held EXCEPT ![t] = 0]
          /\ pc' = [pc EXCEPT ![t] = "idle"]
          /\ browser_instances' = browser_instances
          /\ cleanups' = cleanups]_vars

\* A block raised; its handle, still open, is the head of the idle queue:
\* what the next admitted acquire is yielded.
C22_Witness ==
    /\ last.op = "release_error"
    /\ pool # <<>>
    /\ Head(pool) = last.handle
    /\ HandleReady(browser_instances[last.handle])

\* Tasks suspended inside BrowserPlaywright().__aenter__.
Creating == {t \in Tasks : pc[t] \in {"starting_playwright", "launching_browser"}}

\* A slot is free for a task that calls get_browser() now: fewer than
\* pool_size tasks are admitted and nobody waits in front of it.
SlotFree ==
    /\ Cardinality(InScope \cup Woken) < pool_size
    /\ \A i \in 1..Len(lock.waiters) : lock.fut[lock.waiters[i]] = "cancelled"

\* C23: creation is outside any pool-wide critical section.  While a task is
\* suspended in the creation of its handle, a task that calls get_browser()
\* with a slot free can complete its acquire at once up to a handle or to a
\* creation of its own, the woken waiter next to run can do so too, and
\* every lease holder can complete its release.
C23_CreationBlocksNobody ==
    Creating # {} =>
        \A t \in Tasks :
            /\ (pc[t] = "idle" /\ SlotFree) =>
                   ENABLED (/\ Acquire(t)
                            /\ pc'[t] \in {"leased", "starting_playwright"}
                            /\ UNCHANGED <<history, engineVars>>)
            /\ (pc[t] = "waiting" /\ RunsNext(lock, t)) =>
                   ENABLED (/\ Resume(t)
                            /\ pc'[t] \in {"leased", "starting_playwright"}
                            /\ UNCHANGED <<history, engineVars>>)
            /\ pc[t] = "leased" =>
                   ENABLED (/\ LeaveScope(t, "release")
                            /\ pc'[t] = "idle"
                            /\ InQueue(pool', held[t])
                            /\ UNCHANGED <<history, engineVars>>)

\* While a task is still creating its handle, another task was admitted
\* after it and holds a handle that a third task had released meanwhile.
C23_Witness ==
    /\ Creating # {}
    /\ last.op = "reuse"
    /\ last.task \notin Creating
    /\ pc[last.task] = "leased"

\* What `async with self.lock` has made of the semaphore once task t is
\* in its body: t took a free permit (it was idle), or resumed with the
\* permit handed to it (it waited), or was in the body already.
Entered(t) ==
    IF pc[t] = "idle" THEN [lock EXCEPT !.value = @ - 1]
    ELSE IF pc[t] = "waiting" THEN SemResumed(lock, t)
    ELSE lock

C27_DiscardUnreachable ==
    /\ [](Leased # {} => Len(pool) < pool_size)
    /\ [][\A t \in Tasks : (pc[t] = "leased" /\ pc'[t] # "leased") =>
             /\ Len(pool') = Len(pool) + 1
             /\ pool'[Len(pool')] = held[t]]_vars

\* After a creation failed, a release has filled the idle queue: all
\* pool_size handles are idle.
C27_Witness ==
    /\ pool_size = MaxPoolSize
    /\ Len(pool) = pool_size
    /\ last.op \in ReleaseOps
    /\ orphans > 0

\* C28: the handles of the registry and the tasks suspended in the creation
\* of a handle are together at most pool_size.
C28_AtMostPoolSizeHandles ==
    Len(browser_instances) + Cardinality(Creating) <= pool_size

\* One handle exists, a second is being created, and a third caller waits.
C28_Witness ==
    /\ pool_size = 2
    /\ Len(browser_instances) = 1
    /\ Cardinality(Creating) = 1
    /\ \E t \in Tasks : pc[t] = "waiting"

\* The handles call c of cleanup() covers: those its gather was given.
Covered(c) == 1..Len(cleanups[c].sub)

\* C29: cleanup() acts on the registry as it is when cleanup() is called.
\* The handles a call covers are those in browser_instances at the call and
\* never change afterwards; an __aexit__ it runs is on one of them; when it
\* returns the __aexit__ of each of them is done; a handle no call covers,
\* appended during or after the calls, is as open as it was created.
C29_CleanupOnSnapshot ==
    /\ [][/\ Len(cleanups') > Len(cleanups) =>
                Len(cleanups'[Len(cleanups')].sub) = Len(browser_instances)
          /\ \A c \in 1..Len(cleanups) :
                Len(cleanups'[c].sub) = Len(cleanups[c].sub)
          /\ last'.op \in {"aexit", "closed", "stopped", "aexit_error"} =>
                \E c \in 1..Len(cleanups) :
                    /\ last'.handle \in Covered(c)
                    /\ cleanups'[c].sub[last'.handle] # cleanups[c].sub[last'.handle]]_vars
    /\ [](/\ \A c \in Returned(cleanups) : \A h \in Covered(c) :
                cleanups[c].sub[h] = "done"
          /\ \A h \in 1..Len(browser_instances) :
                (\A c \in 1..Len(cleanups) : h \notin Covered(c)) =>
                    HandleReady(browser_instances[h]))

\* A call of cleanup() that covered one handle has returned; a second
\* handle, appended after the call was made, is open.
C29_Witness ==
    /\ Returned(cleanups) # {}
    /\ Len(cleanups[1].sub) = 1
    /\ Len(browser_instances) = 2
    /\ HandleClosed(browser_instances[1])
    /\ HandleReady(browser_instances[2])

\* The steps of cleanup() and of the __aexit__ tasks it runs.
CleanupOps ==
    {"cleanup", "aexit", "closed", "stopped", "aexit_error", "cleanup_raised",
     "cleanup_returned"}

\* C30: cleanup() changes the handles' own state only.  Its steps leave
\* pool_size, the semaphore, the idle queue, the leases and the number of
\* handles in the registry as they are; and no flag is set: whenever a call
\* of cleanup() has ended, an idle task with a free slot can still complete
\* an acquire and a lease holder can still complete its release.
C30_CleanupFrame ==
    /\ [][last'.op \in CleanupOps =>
             /\ pool_size' = pool_size
             /\ kind' = kind
             /\ lock' = lock
             /\ pool' = pool
             /\ pc' = pc
             /\ held' = held
             /\ Len(browser_instances') = Len(browser_instances)]_vars
    /\ [](Finished(cleanups) # {} =>
             \A t \in Tasks :
                 /\ (pc[t] = "idle" /\ SlotFree) =>
                        ENABLED (/\ Acquire(t)
                                 /\ pc'[t] \in {"leased", "starting_playwright"}
                                 /\ UNCHANGED <<history, engineVars>>)
                 /\ pc[t] = "leased" =>
                        ENABLED (/\ LeaveScope(t, "release")
                                 /\ InQueue(pool', held[t])
                                 /\ UNCHANGED <<history, engineVars>>))

\* cleanup() has just returned: a handle is still idle in the queue, a
\* task still holds a lease and its permit.
C30_Witness ==
    /\ last.op = "cleanup_returned"
    /\ pool # <<>>
    /\ Leased # {}
    /\ lock.value < pool_size

\* Where a call of response() is while run() works on a question.
InRun == {"new_context", "new_page", "search", "page_close", "context_close",
          "run_returned", "run_raised"}

\* C25: a call of response() enters get_browser() once for the whole list
\* (not at all for no questions) and is yielded at most one handle, which
\* it holds while run() works on a question; run() is called for the
\* questions in the order of the list, and for every one of them once a
\* handle was yielded, whatever failed before; when the call is over the
\* task holds no handle and no permit, and it returned the results, or
\* None when there are none (only a cancellation inside get_browser(),
\* before any handle was yielded, leaves the call without a return).
C25_OneLeaseAllQuestions ==
    \A t \in SearchTasks :
        LET r == response[t]
        IN  /\ r.leases <= r.entered
            /\ r.entered = IF r.questions = <<>> THEN 0 ELSE 1
            /\ r.at \in InRun \cup {"loop"} => r.leases = 1 /\ pc[t] = "leased" /\ held[t] # 0
            /\ r.attempted = [k \in 1..r.index |-> k]
            /\ r.failed \subseteq 1..r.index
            /\ r.at = "returned" =>
                  /\ pc[t] = "idle"
                  /\ held[t] = 0
                  /\ lock.fut[t] = "none"
                  /\ r.leases = 1 => r.index = Len(r.questions)
                  /\ r.leases = 0 => r.index = 0
                  /\ r.returns \in {"results", "None", "raised"}
                  /\ r.returns = "results" <=> r.results # {}
                  /\ r.returns = "raised" => r.entered = 1 /\ r.leases = 0
            /\ (\A u \in SearchTasks : response[u].at \in {"idle", "returned"}) =>
                  /\ lock.value = pool_size
                  /\ Len(pool) = Len(browser_instances)

\* A call with two questions is over: run() failed for the first, the
\* second was still attempted and gave the results the call returned; the
\* handle is back in the idle queue.
C25_Witness ==
    \E t \in SearchTasks :
        /\ response[t].at = "returned"
        /\ response[t].questions = <<"a", "a">>
        /\ response[t].failed = {1}
        /\ response[t].attempted = <<1, 2>>
        /\ response[t].returns = "results"
        /\ pool # <<>>

\* C26: when run() returns or raises, the context and the page it opened
\* are closed, and a handle in the idle queue has no open context.
C26_RunClosesContextAndPage ==
    /\ \A t \in SearchTasks :
          response[t].at \in {"run_returned", "run_raised"} =>
              /\ response[t].context \in {"None", "closed"}
              /\ response[t].page \in {"None", "closed"}
    /\ \A i \in 1..Len(pool) : contexts[pool[i]] = 0

====
